---- MODULE Spec2Model ----
(***************************************************************************)
(* A model of the Replicate MCP server (src/src/index.ts): the list-tools  *)
(* and call-tool request handlers, the sixteen tool handlers behind the    *)
(* call-tool switch, and the remote HTTP API as the environment.           *)
(*                                                                         *)
(* JavaScript values are modelled as follows.  An argument bag is a record *)
(* [obj, f, parameters]: obj says whether `arguments` is an object at all  *)
(* (FALSE: undefined), f maps the scalar fields that are present to their  *)
(* string values, and parameters is the nested bag of the `parameters`     *)
(* field.  Reading a field of an undefined bag throws a TypeError, as it   *)
(* does in the source.                                                     *)
(***************************************************************************)
EXTENDS Integers, Sequences, FiniteSets, TLC

VARIABLES
    tools,      \* the --tools option: "static", "dynamic" or "both"
    token,      \* whether REPLICATE_API_TOKEN is set in the environment
    pc,         \* "idle": no invocation in flight; "await": a handler awaits axios
    req,        \* the call-tool request being (or last) handled: [name, args]
    http,       \* the HTTP requests issued by the current invocation, in order
    cont,       \* the suspended handler: what it does with the response
    resp,       \* how axios settled the request of the current invocation
    out,        \* what the current invocation has answered, in order
    listed,     \* the tools returned by the last list-tools request
    answers,    \* image server: the job statuses its get calls were answered with
    proc,       \* the process: its phase, its transport and its exit status
    opts        \* the command line: --list and the --resource, --tool, --operation filters

vars == <<tools, token, pc, req, http, cont, resp, out, listed, answers, proc, opts>>

----------------------------------------------------------------------------
(* JavaScript values *)

Undefined == "undefined"

EmptyFn == [k \in {} |-> ""]

NoParams == [obj |-> FALSE, f |-> EmptyFn]

NoArgs == [obj |-> FALSE, f |-> EmptyFn, parameters |-> NoParams]

\* args.k; the caller has checked that args is an object
Get(args, k) == IF k \in DOMAIN args.f THEN args.f[k] ELSE Undefined

\* the truthiness test `args.k ? ... : ...`: absent and "" are falsy
Truthy(args, k) == k \in DOMAIN args.f /\ args.f[k] # ""

\* args.parameters, passed on as the argument bag of another handler
Parameters(args) == [obj |-> args.parameters.obj, f |-> args.parameters.f,
                     parameters |-> NoParams]

\* the bag as it is serialised into a request body
Body(args) == [obj |-> args.obj, f |-> args.f]

\* the characters of the strings that String.prototype.includes is applied to
Chars(s) ==
    CASE s = "" -> <<>>
      [] s = "predictions" -> <<"p","r","e","d","i","c","t","i","o","n","s">>
      [] s = "models" -> <<"m","o","d","e","l","s">>
      [] s = "collections" -> <<"c","o","l","l","e","c","t","i","o","n","s">>
      [] s = "trainings" -> <<"t","r","a","i","n","i","n","g","s">>
      [] s = "ion" -> <<"i","o","n">>
      [] s = "tr" -> <<"t","r">>
      [] s = "s" -> <<"s">>
      [] s = "el" -> <<"e","l">>
      [] s = "x" -> <<"x">>

\* s.includes(q)
Includes(s, q) ==
    LET cs == Chars(s)
        cq == Chars(q)
    IN \E i \in 0..(Len(cs) - Len(cq)) : SubSeq(cs, i + 1, i + Len(cq)) = cq

----------------------------------------------------------------------------
(* Errors, results and HTTP requests *)

NoResponse == [has |-> FALSE, hasDetail |-> FALSE, detail |-> ""]

NoError == [class |-> "none", code |-> "none", msg |-> <<>>, response |-> NoResponse]

\* new McpError(code, msg)
McpError(code, msg) ==
    [class |-> "McpError", code |-> code, msg |-> msg, response |-> NoResponse]

\* the TypeError of reading property k of undefined
TypeError(k) ==
    [class |-> "TypeError", code |-> "none",
     msg |-> <<"Cannot read properties of undefined (reading '", k, "')">>,
     response |-> NoResponse]

NoOutcome == [kind |-> "none", content |-> <<>>, error |-> NoError]

Throw(e) == [kind |-> "error", content |-> <<>>, error |-> e]

NoEndpoints == <<>>

\* { type: 'text', text: ... }; a JSON text keeps the value it serialises
TextBlock(text, endpoints) == [type |-> "text", text |-> text, endpoints |-> endpoints]

\* return { content: [ block ] }
Return(block) == [kind |-> "result", content |-> <<block>>, error |-> NoError]

NoRequest == [method |-> "none", path |-> <<>>, body |-> NoParams, params |-> EmptyFn]

NoCont == [fmt |-> "none", subject |-> "", id |-> ""]

\* a handler either finishes at once (await = FALSE, out is its outcome), or
\* issues one HTTP request and is suspended until the response arrives
Done(o) == [await |-> FALSE, http |-> NoRequest, out |-> o, cont |-> NoCont]

Await(method, path, body, params, fmt, subject) ==
    [await |-> TRUE,
     http |-> [method |-> method, path |-> path, body |-> body, params |-> params],
     out |-> NoOutcome,
     cont |-> [fmt |-> fmt, subject |-> subject,
               id |-> IF fmt = "cancelled" THEN path[2] ELSE ""]]

\* { params } of the list handlers: args.cursor ? { cursor: args.cursor } : {}
CursorParams(args) ==
    IF Truthy(args, "cursor") THEN [k \in {"cursor"} |-> args.f["cursor"]] ELSE EmptyFn

----------------------------------------------------------------------------
(* The tool catalogs *)

Tool(name, required) == [name |-> name, required |-> required]

getDynamicTools ==
    << Tool("list_api_endpoints", <<>>),
       Tool("get_api_endpoint_schema", <<"endpoint_name">>),
       Tool("invoke_api_endpoint", <<"endpoint_name", "parameters">>) >>

getStaticTools ==
    << Tool("create_prediction", <<"version", "input">>),
       Tool("get_prediction", <<"prediction_id">>),
       Tool("cancel_prediction", <<"prediction_id">>),
       Tool("list_predictions", <<>>),
       Tool("list_models", <<>>),
       Tool("get_model", <<"model_owner", "model_name">>),
       Tool("search_models", <<"query">>),
       Tool("list_collections", <<>>),
       Tool("get_collection", <<"collection_slug">>),
       Tool("create_training",
            <<"model_owner", "model_name", "version", "destination", "input">>),
       Tool("get_training", <<"training_id">>),
       Tool("cancel_training", <<"training_id">>),
       Tool("list_trainings", <<>>) >>

\* serverOptions.dynamicTools, from the --tools option
serverOptions(toolsOpt) == [tools |-> toolsOpt,
                            dynamicTools |-> toolsOpt = "dynamic" \/ toolsOpt = "both"]

\* this.dynamicTools, set by the constructor
dynamicTools(options) == options.dynamicTools \/ options.tools = "dynamic"

\* the list-tools handler
ListToolsHandler(toolsOpt) ==
    IF dynamicTools(serverOptions(toolsOpt)) THEN getDynamicTools ELSE getStaticTools

Range(seq) == {seq[i] : i \in 1..Len(seq)}

Names(toolSeq) == {t.name : t \in Range(toolSeq)}

----------------------------------------------------------------------------
(* The tool handlers: the part of each that runs before its await *)

\* a createPrediction that does not look at the token
createPredictionMutant(args, tok) ==
    Await("POST", <<"predictions">>, Body(args), EmptyFn, "created", "Prediction")

createPrediction(args, tok) ==
    IF ~tok
    THEN Done(Throw(McpError("InvalidRequest",
                    <<"REPLICATE_API_TOKEN environment variable is required">>)))
    ELSE Await("POST", <<"predictions">>, Body(args), EmptyFn, "created", "Prediction")

getPrediction(args) ==
    IF ~args.obj THEN Done(Throw(TypeError("prediction_id")))
    ELSE Await("GET", <<"predictions", Get(args, "prediction_id")>>, NoParams, EmptyFn,
               "json", "")

\* a cancelPrediction that posts to the prediction itself, not to its cancel path
cancelPredictionMutant(args) ==
    IF ~args.obj THEN Done(Throw(TypeError("prediction_id")))
    ELSE Await("POST", <<"predictions", Get(args, "prediction_id")>>,
               NoParams, EmptyFn, "cancelled", "Prediction")

cancelPrediction(args) ==
    IF ~args.obj THEN Done(Throw(TypeError("prediction_id")))
    ELSE Await("POST", <<"predictions", Get(args, "prediction_id"), "cancel">>,
               NoParams, EmptyFn, "cancelled", "Prediction")

listPredictions(args) ==
    IF ~args.obj THEN Done(Throw(TypeError("cursor")))
    ELSE Await("GET", <<"predictions">>, NoParams, CursorParams(args), "json", "")

listModels(args) ==
    IF ~args.obj THEN Done(Throw(TypeError("cursor")))
    ELSE Await("GET", <<"models">>, NoParams, CursorParams(args), "json", "")

getModel(args) ==
    IF ~args.obj THEN Done(Throw(TypeError("model_owner")))
    ELSE Await("GET", <<"models", Get(args, "model_owner"), Get(args, "model_name")>>,
               NoParams, EmptyFn, "json", "")

searchModels(args) ==
    IF ~args.obj THEN Done(Throw(TypeError("query")))
    ELSE Await("GET", <<"models">>, NoParams,
               [k \in {"query"} \cup (IF Truthy(args, "cursor") THEN {"cursor"} ELSE {})
                    |-> Get(args, k)],
               "json", "")

listCollections(args) ==
    IF ~args.obj THEN Done(Throw(TypeError("cursor")))
    ELSE Await("GET", <<"collections">>, NoParams, CursorParams(args), "json", "")

getCollection(args) ==
    IF ~args.obj THEN Done(Throw(TypeError("collection_slug")))
    ELSE Await("GET", <<"collections", Get(args, "collection_slug")>>, NoParams, EmptyFn,
               "json", "")

createTraining(args) ==
    Await("POST", <<"trainings">>, Body(args), EmptyFn, "created", "Training")

getTraining(args) ==
    IF ~args.obj THEN Done(Throw(TypeError("training_id")))
    ELSE Await("GET", <<"trainings", Get(args, "training_id")>>, NoParams, EmptyFn,
               "json", "")

cancelTraining(args) ==
    IF ~args.obj THEN Done(Throw(TypeError("training_id")))
    ELSE Await("POST", <<"trainings", Get(args, "training_id"), "cancel">>,
               NoParams, EmptyFn, "cancelled", "Training")

listTrainings(args) ==
    IF ~args.obj THEN Done(Throw(TypeError("cursor")))
    ELSE Await("GET", <<"trainings">>, NoParams, CursorParams(args), "json", "")

----------------------------------------------------------------------------
(* The dynamic tools *)

Endpoint(name, operations) == [name |-> name, resource |-> name, operations |-> operations]

endpoints ==
    << Endpoint("predictions", <<"create", "get", "cancel", "list">>),
       Endpoint("models", <<"get", "list", "search">>),
       Endpoint("collections", <<"get", "list">>),
       Endpoint("trainings", <<"create", "get", "cancel", "list">>) >>

\* the search filter applied to the whole catalog, not to what the resource kept
listApiEndpointsMutant(args) ==
    IF ~args.obj THEN Done(Throw(TypeError("resource")))
    ELSE
      LET byResource(e) == e.resource = args.f["resource"]
          bySearch(e) == \/ Includes(e.name, args.f["search_query"])
                         \/ Includes(e.resource, args.f["search_query"])
          filtered1 == IF Truthy(args, "resource")
                       THEN SelectSeq(endpoints, byResource) ELSE endpoints
          filtered2 == IF Truthy(args, "search_query")
                       THEN SelectSeq(endpoints, bySearch) ELSE filtered1
      IN Done(Return(TextBlock(<<"JSON">>, filtered2)))

listApiEndpoints(args) ==
    IF ~args.obj THEN Done(Throw(TypeError("resource")))
    ELSE
      LET byResource(e) == e.resource = args.f["resource"]
          bySearch(e) == \/ Includes(e.name, args.f["search_query"])
                         \/ Includes(e.resource, args.f["search_query"])
          filtered1 == IF Truthy(args, "resource")
                       THEN SelectSeq(endpoints, byResource) ELSE endpoints
          filtered2 == IF Truthy(args, "search_query")
                       THEN SelectSeq(filtered1, bySearch) ELSE filtered1
      IN Done(Return(TextBlock(<<"JSON">>, filtered2)))

\* the keys of the schemas table
schemas == {"create_prediction", "get_prediction"}

getApiEndpointSchema(args) ==
    IF ~args.obj THEN Done(Throw(TypeError("endpoint_name")))
    ELSE IF Get(args, "endpoint_name") \notin schemas
         THEN Done(Throw(McpError("InvalidParams",
                         <<"Unknown endpoint: ", Get(args, "endpoint_name")>>)))
         ELSE Done(Return(TextBlock(<<"JSON schema of ", Get(args, "endpoint_name")>>,
                                    NoEndpoints)))

invokeApiEndpoint(args, tok) ==
    IF ~args.obj THEN Done(Throw(TypeError("endpoint_name")))
    ELSE CASE Get(args, "endpoint_name") = "create_prediction" ->
                  createPrediction(Parameters(args), tok)
           [] Get(args, "endpoint_name") = "get_prediction" ->
                  getPrediction(Parameters(args))
           [] OTHER ->
                  Done(Throw(McpError("InvalidParams",
                             <<"Unknown endpoint: ", Get(args, "endpoint_name")>>)))

----------------------------------------------------------------------------
(* The remote API, and the part of each handler that runs after its await *)

Data(id, status) == [null |-> FALSE, id |-> id, status |-> status]

NullData == [null |-> TRUE, id |-> "", status |-> ""]

NoResp == [ok |-> FALSE, response |-> NoResponse, message |-> "", data |-> NullData]

\* what axios can settle a request with: a 2xx response (the promise resolves), a
\* non-2xx response with or without a detail in its body, or no response at all
Responses ==
    {[ok |-> TRUE, response |-> NoResponse, message |-> "", data |-> d] :
        d \in {Data("X", "starting"), Data("X", "succeeded"), NullData}}
    \cup
    {[ok |-> FALSE, response |-> [has |-> TRUE, hasDetail |-> hd, detail |-> dt],
      message |-> "Request failed with status code 404", data |-> NullData] :
        hd \in BOOLEAN, dt \in {"", "Not found"}}
    \cup
    {[ok |-> FALSE, response |-> NoResponse, message |-> "Network Error",
      data |-> NullData]}

\* the rejection of the awaited axios call
AxiosError(r) ==
    [class |-> "AxiosError", code |-> "none", msg |-> <<r.message>>,
     response |-> r.response]

\* JSON.stringify(response.data, null, 2)
Stringify(data) == IF data.null THEN <<"null">> ELSE <<"JSON", data.id, data.status>>

\* the statements after `await this.axiosInstance...` of the suspended handler
Resume(k, r) ==
    IF ~r.ok THEN Throw(AxiosError(r))
    ELSE CASE k.fmt = "created" ->
                  IF r.data.null THEN Throw(TypeError("id"))
                  ELSE Return(TextBlock(<<k.subject, " created successfully. ID: ",
                                          r.data.id, "\nStatus: ", r.data.status>>,
                                        NoEndpoints))
           [] k.fmt = "cancelled" ->
                  Return(TextBlock(<<k.subject, " ", k.id, " cancelled successfully">>,
                                   NoEndpoints))
           [] OTHER -> Return(TextBlock(Stringify(r.data), NoEndpoints))

\* the transport error's message in place of the detail of the response
DetailOrMessageMutant(e) == e.msg

\* error.response?.data?.detail || error.message
DetailOrMessage(e) ==
    IF e.response.has /\ e.response.hasDetail /\ e.response.detail # ""
    THEN <<e.response.detail>>
    ELSE e.msg

\* a catch block that answers the failure as a result instead of throwing
CatchBlockMutant(o) ==
    IF o.kind = "error" /\ o.error.class = "AxiosError"
    THEN Return(TextBlock(<<"Replicate API error: ">> \o DetailOrMessage(o.error),
                          NoEndpoints))
    ELSE o

\* the catch block of the call-tool handler
CatchBlock(o) ==
    IF o.kind = "error" /\ o.error.class = "AxiosError"
    THEN Throw(McpError("InternalError",
                        <<"Replicate API error: ">> \o DetailOrMessage(o.error)))
    ELSE o

\* the switch of the call-tool handler
Switch(name, args, tok) ==
    CASE name = "create_prediction" -> createPrediction(args, tok)
      [] name = "get_prediction" -> getPrediction(args)
      [] name = "cancel_prediction" -> cancelPrediction(args)
      [] name = "list_predictions" -> listPredictions(args)
      [] name = "list_models" -> listModels(args)
      [] name = "get_model" -> getModel(args)
      [] name = "search_models" -> searchModels(args)
      [] name = "list_collections" -> listCollections(args)
      [] name = "get_collection" -> getCollection(args)
      [] name = "create_training" -> createTraining(args)
      [] name = "get_training" -> getTraining(args)
      [] name = "cancel_training" -> cancelTraining(args)
      [] name = "list_trainings" -> listTrainings(args)
      [] name = "list_api_endpoints" -> listApiEndpoints(args)
      [] name = "get_api_endpoint_schema" -> getApiEndpointSchema(args)
      [] name = "invoke_api_endpoint" -> invokeApiEndpoint(args, tok)
      [] OTHER -> Done(Throw(McpError("MethodNotFound", <<"Unknown tool: ", name>>)))

\* a call-tool handler whose switch lacks the three dynamic tools
CallToolHandlerMutant(name, args, tok) ==
    LET s == IF name \in {"list_api_endpoints", "get_api_endpoint_schema",
                          "invoke_api_endpoint"}
             THEN Done(Throw(McpError("MethodNotFound", <<"Unknown tool: ", name>>)))
             ELSE Switch(name, args, tok)
    IN IF s.await THEN s ELSE Done(CatchBlock(s.out))

\* the call-tool handler up to its first await: the switch inside try/catch
CallToolHandler(name, args, tok) ==
    LET s == Switch(name, args, tok)
    IN IF s.await THEN s ELSE Done(CatchBlock(s.out))

\* the call-tool handler from the response on
CallToolResume(k, r) == CatchBlock(Resume(k, r))

----------------------------------------------------------------------------
(* The requests a client can send *)

StaticNames == Names(getStaticTools)

DynamicNames == Names(getDynamicTools)

\* two names no tool of this server has
UnknownNames == {"generate_image", "delete_model"}

ToolNameInputs == StaticNames \cup DynamicNames \cup UnknownNames

EndpointNameInputs ==
    {"create_prediction", "get_prediction", "cancel_prediction", "list_models",
     "cancel_training", "predictions", "nope"}

BagsOver(fields, values) == UNION {[S -> values] : S \in SUBSET fields}

Object(f) == [obj |-> TRUE, f |-> f, parameters |-> NoParams]

FieldInputs(name) ==
    CASE name \in {"create_prediction"} -> {"version", "input"}
      [] name \in {"get_prediction", "cancel_prediction"} -> {"prediction_id", "cursor"}
      [] name \in {"list_predictions", "list_models", "list_collections",
                   "list_trainings"} -> {"cursor"}
      [] name = "get_model" -> {"model_owner", "model_name"}
      [] name = "search_models" -> {"query", "cursor"}
      [] name = "get_collection" -> {"collection_slug"}
      [] name = "create_training" -> {"version", "destination"}
      [] name \in {"get_training", "cancel_training"} -> {"training_id"}
      [] name = "list_api_endpoints" -> {"resource", "search_query"}
      [] name = "get_api_endpoint_schema" -> {"endpoint_name"}
      [] OTHER -> {"prompt"}

ValueInputs(name) ==
    CASE name = "list_api_endpoints" -> {"", "predictions", "models", "ion", "el", "x"}
      [] name = "get_api_endpoint_schema" -> EndpointNameInputs
      [] name \in {"create_prediction", "create_training", "get_model",
                   "get_collection"} -> {"v1"}
      [] OTHER -> {"", "p1"}

\* the argument bags tried for a tool other than invoke_api_endpoint
PlainArgs(name) ==
    {NoArgs} \cup {Object(f) : f \in BagsOver(FieldInputs(name), ValueInputs(name))}

InvokeArgs ==
    {NoArgs}
    \cup {[obj |-> TRUE, f |-> EmptyFn, parameters |-> [obj |-> TRUE, f |-> EmptyFn]]}
    \cup UNION {{[obj |-> TRUE, f |-> [k \in {"endpoint_name"} |-> n],
                   parameters |-> [obj |-> p.obj, f |-> p.f]] : p \in PlainArgs(n)} :
                 n \in EndpointNameInputs}

ArgInputs(name) == IF name = "invoke_api_endpoint" THEN InvokeArgs ELSE PlainArgs(name)

----------------------------------------------------------------------------
(* The process and its command line *)

\* program.opts() when neither --list nor a filter is given
NoOpts == [list |-> FALSE, resource |-> <<>>, tool |-> <<>>, operation |-> ""]

Process(phase, transport, exit) == [phase |-> phase, transport |-> transport, exit |-> exit]

\* the process once run() has connected the stdio transport
Connected == Process("serving", "open", "none")

----------------------------------------------------------------------------
(* The state machine *)

Init ==
    /\ tools \in {"static", "dynamic", "both"}
    /\ token \in BOOLEAN
    /\ pc = "idle"
    /\ req = [name |-> "", args |-> NoArgs]
    /\ http = <<>>
    /\ cont = NoCont
    /\ resp = NoResp
    /\ out = <<>>
    /\ listed = <<>>
    /\ answers = <<>>
    /\ proc = Connected
    /\ opts = NoOpts

\* a list-tools request
ListTools ==
    /\ proc.phase = "serving"
    /\ listed' = ListToolsHandler(tools)
    /\ UNCHANGED <<proc, opts, tools, token, pc, req, http, cont, resp, out, answers>>

\* the call-tool request (name, args), handled up to the handler's await or to its end
Call(name, args) ==
    /\ proc.phase = "serving"
    /\ pc = "idle"
    /\ LET s == CallToolHandler(name, args, token)
       IN /\ req' = [name |-> name, args |-> args]
          /\ http' = IF s.await THEN <<s.http>> ELSE <<>>
          /\ cont' = s.cont
          /\ out' = IF s.await THEN <<>> ELSE <<s.out>>
          /\ pc' = IF s.await THEN "await" ELSE "idle"
    /\ resp' = NoResp
    /\ UNCHANGED <<proc, opts, tools, token, listed, answers>>

\* a call-tool request
CallTool == \E name \in ToolNameInputs : \E args \in ArgInputs(name) : Call(name, args)

\* axios settles the request; the suspended handler runs to its end
HttpResponds ==
    /\ proc.phase \in {"serving", "closing"}
    /\ pc = "await"
    /\ \E r \in Responses :
          /\ resp' = r
          /\ out' = Append(out, CallToolResume(cont, r))
    /\ pc' = "idle"
    /\ cont' = NoCont
    /\ UNCHANGED <<proc, opts, tools, token, req, http, listed, answers>>

Next == ListTools \/ CallTool \/ HttpResponds

Spec == Init /\ [][Next]_vars

----------------------------------------------------------------------------
(* Properties of the call-tool and list-tools handlers *)

\* an invocation has been handled to its end
Ended == pc = "idle" /\ req.name # ""

\* the invocation ended with the McpError code `code` and issued no HTTP request
FailedLocally(code) ==
    /\ Ended
    /\ http = <<>>
    /\ Len(out) = 1
    /\ out[1].kind = "error"
    /\ out[1].error.class = "McpError"
    /\ out[1].error.code = code

\* args has the field k
Has(args, k) ==
    args.obj /\ (IF k = "parameters" THEN args.parameters.obj ELSE k \in DOMAIN args.f)

\* the required fields the tool's input schema declares
Required(name) ==
    UNION {Range(t.required) : t \in {u \in Range(getStaticTools \o getDynamicTools) :
                                         u.name = name}}

\* C1: a call of a tool name that list-tools does not return in the active mode
\* ends with a method-not-found error and nothing else, whatever the arguments.
C1_UnlistedToolIsMethodNotFound ==
    (req.name # "" /\ req.name \notin Names(ListToolsHandler(tools)))
        => FailedLocally("MethodNotFound")

\* C2: a call that omits a required field of the tool's input schema, or whose
\* arguments are not an object, ends with an invalid-params error before any
\* HTTP request is issued.
C2_MissingRequiredIsInvalidParams ==
    (/\ req.name # ""
     /\ Required(req.name) # {}
     /\ \E k \in Required(req.name) : ~Has(req.args, k))
        => FailedLocally("InvalidParams")

\* C5: every invocation ends with exactly one outcome, one result holding one text
\* block or one error; nothing is answered while the handler is suspended, and an
\* invocation whose HTTP request failed, or whose tool is unknown, ends in an error.
C5_ExactlyOneOutcome ==
    /\ pc = "await" => out = <<>>
    /\ Ended =>
         /\ Len(out) = 1
         /\ \/ /\ out[1].kind = "result"
               /\ Len(out[1].content) = 1
               /\ out[1].content[1].type = "text"
               /\ out[1].error = NoError
            \/ /\ out[1].kind = "error"
               /\ out[1].content = <<>>
               /\ out[1].error.class \in {"McpError", "TypeError"}
         /\ (http # <<>> /\ ~resp.ok) => out[1].kind = "error"
         /\ req.name \in UnknownNames => out[1].kind = "error"

C5_Witness ==
    /\ Ended
    /\ Len(http) = 1
    /\ ~resp.ok
    /\ Len(out) = 1
    /\ out[1].kind = "error"

Contains(msg, part) == \E i \in 1..Len(msg) : msg[i] = part

\* C6: when the HTTP request of an invocation fails, the invocation ends with an
\* internal-error whose message contains the detail of the response when the
\* response carries a non-empty one, and the transport error's message otherwise,
\* also when the handler was reached through invoke_api_endpoint.
C6_HttpFailureIsInternalError ==
    (Ended /\ http # <<>> /\ ~resp.ok) =>
        /\ Len(out) = 1
        /\ out[1].kind = "error"
        /\ out[1].error.class = "McpError"
        /\ out[1].error.code = "InternalError"
        /\ IF resp.response.has /\ resp.response.hasDetail /\ resp.response.detail # ""
           THEN Contains(out[1].error.msg, resp.response.detail)
           ELSE Contains(out[1].error.msg, resp.message)

C6_Witness ==
    /\ Ended
    /\ req.name = "invoke_api_endpoint"
    /\ Len(http) = 1
    /\ ~resp.ok
    /\ resp.response.hasDetail
    /\ resp.response.detail = "Not found"
    /\ out[1].error.code = "InternalError"
    /\ Contains(out[1].error.msg, "Not found")

\* C7: get_api_endpoint_schema or invoke_api_endpoint with an endpoint name that is
\* not in the catalog ends with a method-not-found error and no HTTP request.
C7_UnknownEndpointIsMethodNotFound ==
    (/\ req.name \in {"get_api_endpoint_schema", "invoke_api_endpoint"}
     /\ Has(req.args, "endpoint_name")
     /\ Get(req.args, "endpoint_name") \notin schemas)
        => FailedLocally("MethodNotFound")

\* the entries list_api_endpoints is to return when the filters in `given` apply
Expected(args, given) ==
    LET keep(e) ==
          /\ "resource" \in given => e.resource = args.f["resource"]
          /\ "search_query" \in given =>
                \/ Includes(e.name, args.f["search_query"])
                \/ Includes(e.resource, args.f["search_query"])
    IN SelectSeq(endpoints, keep)

ReturnsEndpoints(list) ==
    /\ Ended
    /\ http = <<>>
    /\ Len(out) = 1
    /\ out[1].kind = "result"
    /\ out[1].content[1].endpoints = list

\* C8 as stated: every resource argument r selects exactly the entries whose
\* resource equals r, every search_query q the entries whose name or resource
\* contains q, both together their conjunction, and no filter the whole catalog.
C8_FiltersAsStated ==
    (req.name = "list_api_endpoints" /\ req.args.obj) =>
        ReturnsEndpoints(Expected(req.args, DOMAIN req.args.f))

\* C8, amended: a non-empty resource argument r selects exactly the entries whose
\* resource equals r, in catalog order; a search_query q the entries whose name or
\* resource contains q; both together their conjunction; and with no filter, or an
\* empty string as filter, the whole four-entry catalog is returned.
C8_FiltersWhenNonEmpty ==
    (req.name = "list_api_endpoints" /\ req.args.obj) =>
        /\ ReturnsEndpoints(Expected(req.args,
                                     {k \in DOMAIN req.args.f : req.args.f[k] # ""}))
        /\ (\A k \in DOMAIN req.args.f : req.args.f[k] = "") =>
              (ReturnsEndpoints(endpoints) /\ Len(endpoints) = 4)

C8_Witness ==
    /\ req.name = "list_api_endpoints"
    /\ req.args.obj
    /\ DOMAIN req.args.f = {"resource", "search_query"}
    /\ req.args.f["resource"] = "predictions"
    /\ req.args.f["search_query"] = "ion"
    /\ ReturnsEndpoints(<<endpoints[1]>>)

\* C9: invoke_api_endpoint(endpoint_name = n, parameters = p), for every static tool
\* n, issues the HTTP request and gives the outcome of a direct call of n with p.
C9_InvokeEqualsDirectCall ==
    (/\ req.name = "invoke_api_endpoint"
     /\ Has(req.args, "parameters")
     /\ Get(req.args, "endpoint_name") \in StaticNames) =>
        LET direct == CallToolHandler(Get(req.args, "endpoint_name"),
                                      Parameters(req.args), token)
        IN /\ http = IF direct.await THEN <<direct.http>> ELSE <<>>
           /\ Ended =>
                out = IF direct.await THEN <<CallToolResume(direct.cont, resp)>>
                      ELSE <<direct.out>>

\* C10: list-tools returns the 13 static tools with --tools=static, the 3 dynamic
\* tools with --tools=dynamic and all 16 with --tools=both, under distinct names.
C10_ListToolsReturnsModeSet ==
    listed # <<>> =>
        /\ Names(listed) = CASE tools = "static" -> StaticNames
                             [] tools = "dynamic" -> DynamicNames
                             [] OTHER -> StaticNames \cup DynamicNames
        /\ Len(listed) = CASE tools = "static" -> 13
                           [] tools = "dynamic" -> 3
                           [] OTHER -> 16
        /\ \A i, j \in 1..Len(listed) : listed[i].name = listed[j].name => i = j

----------------------------------------------------------------------------
(* The image server: the variant with the single tool generate_image, which    *)
(* coerces its arguments, creates a prediction and polls it to a terminal      *)
(* status (specification sections 4.1 to 4.3).  The source of this variant is  *)
(* not available; the definitions below follow the written specification,      *)
(* except the declared bounds, which PredictionInputSchema also states.        *)

MaxInProgress == 3

Num(n) == [t |-> "number", n |-> n, s |-> ""]

Str(s) == [t |-> "string", n |-> 0, s |-> s]

Null == [t |-> "null", n |-> 0, s |-> ""]

Absent == [t |-> "absent", n |-> 0, s |-> ""]

NumericFields == {"width", "height", "num_outputs", "guidance_scale",
                  "num_inference_steps"}

StringFields == {"prompt"}

\* the declared minimum and maximum of a numeric field
FieldMin(k) == IF k \in {"width", "height"} THEN 256 ELSE 1

FieldMax(k) ==
    CASE k \in {"width", "height"} -> 4096
      [] k = "num_outputs" -> 4
      [] k = "guidance_scale" -> 20
      [] k = "num_inference_steps" -> 100

\* a clamp that lets a value below the minimum through
ClampMutant(v, lo, hi) == IF v > hi THEN hi ELSE v

\* clamp-to-range: the nearest bound of an out-of-range value
Clamp(v, lo, hi) == IF v < lo THEN lo ELSE IF v > hi THEN hi ELSE v

\* the fields of a raw bag that count as present: null is ignored
Present(args) == {k \in DOMAIN args.f : args.f[k].t # "null"}

\* coerce(schema, rawArgs): a ValidationError, or the NormalizedInput
coerce(args) ==
    IF \/ ~args.obj
       \/ "prompt" \notin Present(args)
       \/ \E k \in Present(args) \cap StringFields : args.f[k].t # "string"
       \/ \E k \in Present(args) \cap NumericFields : args.f[k].t # "number"
    THEN [error |-> TRUE, input |-> EmptyFn]
    ELSE [error |-> FALSE,
          input |-> [k \in Present(args) \cap (StringFields \cup NumericFields) |->
                        IF k \in NumericFields
                        THEN Num(Clamp(args.f[k].n, FieldMin(k), FieldMax(k)))
                        ELSE args.f[k]]]

\* the raw argument bags tried
RawValues(k) ==
    CASE k = "prompt" -> {Absent, Str("a cat"), Num(5), Null}
      [] k = "width" -> {Absent, Num(10), Num(256), Num(800), Num(4096), Num(9000)}
      [] k = "height" -> {Absent, Num(255), Num(1024), Num(4097), Str("tall")}
      [] k = "num_outputs" -> {Absent, Num(0), Num(2), Num(5)}
      [] k = "guidance_scale" -> {Absent, Num(0), Num(7), Num(21)}
      [] k = "num_inference_steps" -> {Absent, Num(0), Num(20), Num(101), Null}

RawBag(c) == [obj |-> TRUE, f |-> [k \in {j \in DOMAIN c : c[j].t # "absent"} |-> c[k]],
              parameters |-> NoParams]

ImageArgInputs ==
    {NoArgs} \cup
    {RawBag([prompt |-> p, width |-> w, height |-> h, num_outputs |-> n,
             guidance_scale |-> g, num_inference_steps |-> s]) :
        p \in RawValues("prompt"), w \in RawValues("width"), h \in RawValues("height"),
        n \in RawValues("num_outputs"), g \in RawValues("guidance_scale"),
        s \in RawValues("num_inference_steps")}

InProgress == {"starting", "processing"}

\* a status the poller does not take for terminal though it is
TerminalMutant == {"succeeded", "failed"}

\* the statuses that end the poll loop
Terminal == {"succeeded", "failed", "canceled"}

Job(status, hasError, error, output) ==
    [null |-> FALSE, id |-> "X", status |-> status, hasError |-> hasError,
     error |-> error, output |-> output]

NoJob == Job("", FALSE, "", "")

Settled(ok, response, message, data) ==
    [ok |-> ok, response |-> response, message |-> message, data |-> data]

\* how the remote API can answer the create call
CreateResponses ==
    {Settled(TRUE, NoResponse, "", Job("starting", FALSE, "", "")),
     Settled(FALSE, [has |-> TRUE, hasDetail |-> TRUE, detail |-> "Invalid version"],
             "Request failed with status code 422", NoJob),
     Settled(FALSE, NoResponse, "Network Error", NoJob)}

\* how the remote API can answer a get call, after the statuses `seen`: at most
\* MaxInProgress in-progress statuses before a terminal one
GetResponses(seen) ==
    {Settled(TRUE, NoResponse, "", Job(st, FALSE, "", "")) :
        st \in IF Len(seen) < MaxInProgress THEN InProgress ELSE {}}
    \cup
    {Settled(TRUE, NoResponse, "", Job("succeeded", FALSE, "", "https://example/img.png")),
     Settled(TRUE, NoResponse, "", Job("failed", TRUE, "boom", "")),
     Settled(TRUE, NoResponse, "", Job("failed", FALSE, "", "")),
     Settled(TRUE, NoResponse, "", Job("canceled", FALSE, "", "")),
     Settled(FALSE, NoResponse, "Network Error", NoJob)}

\* the poller's step on the job a get call returned: the outcome that ends the
\* invocation, or NoOutcome to poll again
poll(job) ==
    CASE job.status = "succeeded" -> Return(TextBlock(<<job.output>>, NoEndpoints))
      [] job.status \in Terminal ->
            Throw(McpError("InternalError",
                           <<"Prediction ", job.status, ": ",
                             IF job.hasError THEN job.error ELSE "Unknown error">>))
      [] OTHER -> NoOutcome

ImageInit ==
    /\ tools = "static"
    /\ token = TRUE
    /\ pc = "idle"
    /\ req \in {[name |-> "generate_image", args |-> a] : a \in ImageArgInputs}
    /\ http = <<>>
    /\ cont = NoCont
    /\ resp = Settled(FALSE, NoResponse, "", NoJob)
    /\ out = <<>>
    /\ listed = <<>>
    /\ answers = <<>>
    /\ proc = Connected
    /\ opts = NoOpts

\* a generate_image call: coerce the arguments, then issue the create call
GenerateImage ==
    /\ pc = "idle"
    /\ LET c == coerce(req.args)
       IN IF c.error
          THEN /\ out' = <<Throw(McpError("InvalidParams", <<"Invalid arguments">>))>>
               /\ http' = <<>>
               /\ pc' = "idle"
          ELSE /\ out' = <<>>
               /\ http' = <<[method |-> "POST", path |-> <<"predictions">>,
                             body |-> [obj |-> TRUE, f |-> c.input],
                             params |-> EmptyFn]>>
               /\ pc' = "create"
    /\ answers' = <<>>
    /\ resp' = Settled(FALSE, NoResponse, "", NoJob)
    /\ cont' = NoCont
    /\ UNCHANGED <<proc, opts, tools, token, req, listed>>

\* the create call is answered: with an id the poller is entered
CreateResponds ==
    /\ pc = "create"
    /\ \E r \in CreateResponses :
          /\ resp' = r
          /\ IF r.ok
             THEN /\ pc' = "polling"
                  /\ cont' = [fmt |-> "poll", subject |-> "Prediction", id |-> r.data.id]
                  /\ out' = out
             ELSE /\ pc' = "idle"
                  /\ cont' = NoCont
                  /\ out' = Append(out, CatchBlock(Throw(AxiosError(r))))
    /\ UNCHANGED <<proc, opts, tools, token, req, http, listed, answers>>

\* one poll: the get call for the job
Poll ==
    /\ pc = "polling"
    /\ http' = Append(http, [method |-> "GET", path |-> <<"predictions", cont.id>>,
                             body |-> NoParams, params |-> EmptyFn])
    /\ pc' = "get"
    /\ UNCHANGED <<proc, opts, tools, token, req, cont, resp, out, listed, answers>>

\* the get call is answered: a terminal status ends the invocation, any other
\* suspends the poller for the interval
GetResponds ==
    /\ pc = "get"
    /\ \E r \in GetResponses(answers) :
          /\ resp' = r
          /\ IF ~r.ok
             THEN /\ out' = Append(out, CatchBlock(Throw(AxiosError(r))))
                  /\ pc' = "idle"
                  /\ answers' = answers
             ELSE /\ answers' = Append(answers, r.data.status)
                  /\ IF poll(r.data) = NoOutcome
                     THEN out' = out /\ pc' = "sleep"
                     ELSE out' = Append(out, poll(r.data)) /\ pc' = "idle"
    /\ UNCHANGED <<proc, opts, tools, token, req, http, cont, listed>>

\* the interval has passed
Wake ==
    /\ pc = "sleep"
    /\ pc' = "polling"
    /\ UNCHANGED <<proc, opts, tools, token, req, http, cont, resp, out, listed, answers>>

ImageNext == GenerateImage \/ CreateResponds \/ Poll \/ GetResponds \/ Wake

SpecImage == ImageInit /\ [][ImageNext]_vars

----------------------------------------------------------------------------
(* Properties of the image server *)

\* the bounds the claim states for each numeric field
StatedRange(k) ==
    CASE k \in {"width", "height"} -> <<256, 4096>>
      [] k = "num_outputs" -> <<1, 4>>
      [] k = "guidance_scale" -> <<1, 20>>
      [] k = "num_inference_steps" -> <<1, 100>>

\* the value the claim gives a number v of field k
StatedValue(k, v) ==
    IF v < StatedRange(k)[1] THEN StatedRange(k)[1]
    ELSE IF v > StatedRange(k)[2] THEN StatedRange(k)[2]
    ELSE v

\* the raw bag is well-formed but for the range of its numbers
WellTyped(args) ==
    /\ args.obj
    /\ "prompt" \in DOMAIN args.f
    /\ \A k \in DOMAIN args.f :
          args.f[k].t = IF k \in NumericFields THEN "number" ELSE "string"

Count(seq, S) == Cardinality({i \in 1..Len(seq) : seq[i] \in S})

Gets == Cardinality({i \in 1..Len(http) : http[i].method = "GET"})

Creates == Cardinality({i \in 1..Len(http) : http[i].method = "POST"})

\* C4: once the create call has returned an id, get calls are issued until the first
\* terminal status and none after it: when k in-progress statuses were followed by
\* a terminal one, one create call and k + 1 get calls were issued; on succeeded
\* the invocation returns the job's output, on failed it ends with an
\* internal-error whose message contains the upstream error text.
C4_PollsUntilFirstTerminal ==
    /\ \A i \in 1..(Len(answers) - 1) : answers[i] \in {"starting", "processing"}
    /\ (pc \in {"polling", "get", "sleep"}) =>
          /\ Count(answers, {"succeeded", "failed", "canceled"}) = 0
          /\ out = <<>>
    /\ (answers # <<>> /\ answers[Len(answers)] \in {"succeeded", "failed", "canceled"}
        /\ resp.ok) =>
          /\ pc = "idle"
          /\ Creates = 1
          /\ Gets = Count(answers, {"starting", "processing"}) + 1
          /\ Len(out) = 1
          /\ resp.data.status = "succeeded" =>
                (/\ out[1].kind = "result"
                 /\ out[1].content[1].text = <<resp.data.output>>)
          /\ resp.data.status = "failed" =>
                (/\ out[1].kind = "error"
                 /\ out[1].error.code = "InternalError"
                 /\ resp.data.hasError => Contains(out[1].error.msg, resp.data.error))

C4_Witness ==
    /\ answers = <<"processing", "processing", "processing", "failed">>
    /\ Gets = 4
    /\ Creates = 1
    /\ pc = "idle"
    /\ out[1].error.code = "InternalError"
    /\ Contains(out[1].error.msg, "boom")

----------------------------------------------------------------------------
(* The life of the process: the top-level startup code, the server's run()  *)
(* and the SIGINT handler the constructor registers.                        *)

\* the command lines tried: --list or not, and no filter or one of three
OptInputs ==
    {[list |-> l, resource |-> f.resource, tool |-> f.tool, operation |-> f.operation] :
        l \in BOOLEAN,
        f \in {NoOpts,
               [NoOpts EXCEPT !.resource = <<"predictions">>],
               [NoOpts EXCEPT !.tool = <<"create_prediction", "get_prediction">>],
               [NoOpts EXCEPT !.operation = "read"]}}

ProcInit ==
    /\ tools \in {"static", "dynamic", "both"}
    /\ token \in BOOLEAN
    /\ opts \in OptInputs
    /\ proc = Process("start", "none", "none")
    /\ pc = "idle"
    /\ req = [name |-> "", args |-> NoArgs]
    /\ http = <<>>
    /\ cont = NoCont
    /\ resp = NoResp
    /\ out = <<>>
    /\ listed = <<>>
    /\ answers = <<>>

\* --list: print the tool names and exit with status 0
ListAndExit ==
    /\ proc.phase = "start"
    /\ opts.list
    /\ proc' = Process("exited", "none", "0")
    /\ UNCHANGED <<opts, tools, token, pc, req, http, cont, resp, out, listed, answers>>

\* new ReplicateMCPServer(serverOptions), then run(): the transport is connected
Startup ==
    /\ proc.phase = "start"
    /\ ~opts.list
    /\ proc' = Connected
    /\ UNCHANGED <<opts, tools, token, pc, req, http, cont, resp, out, listed, answers>>

\* a SIGINT handler that does not close the transport
SigintMutant ==
    /\ proc.phase = "serving"
    /\ proc' = [proc EXCEPT !.phase = "closing"]
    /\ UNCHANGED <<opts, tools, token, pc, req, http, cont, resp, out, listed, answers>>

\* SIGINT: the handler calls this.server.close(), which closes the transport
Sigint ==
    /\ proc.phase = "serving"
    /\ proc' = [proc EXCEPT !.phase = "closing", !.transport = "closed"]
    /\ UNCHANGED <<opts, tools, token, pc, req, http, cont, resp, out, listed, answers>>

\* the SIGINT handler after its await: process.exit(0)
Exit ==
    /\ proc.phase = "closing"
    /\ proc' = [proc EXCEPT !.phase = "exited", !.exit = "0"]
    /\ UNCHANGED <<opts, tools, token, pc, req, http, cont, resp, out, listed, answers>>

\* the argument bags tried while the life of the process is explored
ProcArgInputs(name) ==
    {NoArgs, Object(EmptyFn)} \cup
    (IF name = "invoke_api_endpoint"
     THEN {[obj |-> TRUE, f |-> [k \in {"endpoint_name"} |-> n],
            parameters |-> [obj |-> TRUE, f |-> EmptyFn]] :
              n \in {"create_prediction", "list_models"}}
     ELSE {})

\* a call-tool request, for every tool name
CallToolPlain ==
    \E name \in ToolNameInputs : \E args \in ProcArgInputs(name) : Call(name, args)

ProcNext ==
    ListAndExit \/ Startup \/ ListTools \/ CallToolPlain \/ HttpResponds \/ Sigint \/ Exit

SpecProc == ProcInit /\ [][ProcNext]_vars

----------------------------------------------------------------------------
(* Properties of the command line, the credential and the process *)

\* the resource a static tool works on, as its name tells
ResourceOf(name) ==
    CASE name \in {"create_prediction", "get_prediction", "cancel_prediction",
                   "list_predictions"} -> "predictions"
      [] name \in {"list_models", "get_model", "search_models"} -> "models"
      [] name \in {"list_collections", "get_collection"} -> "collections"
      [] OTHER -> "trainings"

\* read for the get, list and search tools, write for create and cancel
OperationOf(name) ==
    IF name \in {"create_prediction", "cancel_prediction", "create_training",
                 "cancel_training"}
    THEN "write" ELSE "read"

\* the static tool `name` passes every filter given on the command line
MatchesFilters(name, o) ==
    /\ o.resource = <<>> \/ ResourceOf(name) \in Range(o.resource)
    /\ o.tool = <<>> \/ name \in Range(o.tool)
    /\ o.operation = "" \/ OperationOf(name) = o.operation

\* C11: with --resource, --operation or --tool on the command line, every static
\* tool that list-tools returns matches the filters given.
C11_ListedStaticToolsMatchFilters ==
    \A t \in Range(listed) :
        t.name \in StaticNames => MatchesFilters(t.name, opts)

\* the invocation is a create-prediction call, direct or through invoke_api_endpoint
IsCreatePrediction ==
    \/ req.name = "create_prediction"
    \/ /\ req.name = "invoke_api_endpoint"
       /\ req.args.obj
       /\ Get(req.args, "endpoint_name") = "create_prediction"

\* C12: without a token a create-prediction call, direct or through
\* invoke_api_endpoint, fails with an invalid-request error for that call, issues
\* no HTTP request and leaves the server serving and ready for the next call.
C12_NoTokenCreatePredictionIsInvalidRequest ==
    (~token /\ IsCreatePrediction) =>
        /\ FailedLocally("InvalidRequest")
        /\ proc = Connected
        /\ pc = "idle"

C12_Witness ==
    /\ ~token
    /\ req.name = "invoke_api_endpoint"
    /\ IsCreatePrediction
    /\ FailedLocally("InvalidRequest")
    /\ proc = Connected

\* C13: without a token the process never serves and ends with a non-zero exit
\* status; with --list it exits with status 0 and never connects the transport.
C13_NoTokenNeverServes ==
    /\ (~token /\ ~opts.list) =>
          /\ proc.phase \in {"start", "exited"}
          /\ proc.transport = "none"
          /\ proc.phase = "exited" => proc.exit \notin {"none", "0"}
    /\ opts.list =>
          /\ proc.phase \in {"start", "exited"}
          /\ proc.transport = "none"
          /\ proc.phase = "exited" => proc.exit = "0"

\* C14: every error that leaves the call-tool handler is an McpError whose code is
\* invalid-params, method-not-found or internal-error.
C14_ErrorsCarryProtocolCodes ==
    Ended =>
        \A i \in 1..Len(out) :
            out[i].kind = "error" =>
                /\ out[i].error.class = "McpError"
                /\ out[i].error.code \in {"InvalidParams", "MethodNotFound", "InternalError"}

\* the handler of the static tool fails before it reaches its HTTP request
FailsBeforeRequest ==
    \/ req.name = "create_prediction" /\ ~token
    \/ req.name \notin {"create_prediction", "create_training"} /\ ~req.args.obj

\* the one request of a cancel call
CancelRequest(resource, id) ==
    [method |-> "POST", path |-> <<resource, id, "cancel">>, body |-> NoParams,
     params |-> EmptyFn]

\* C15 as stated: every invocation of a gateway operation issues exactly one HTTP
\* request.
C15_ExactlyOneRequest ==
    req.name \in StaticNames => Len(http) = 1

\* C15: an invocation issues at most one HTTP request, and a gateway operation
\* exactly one, also when the request fails, unless its handler fails before the
\* request; a cancel call issues one POST to the cancel path of the job.
C15_OneRequestUnlessFailedBefore ==
    /\ Len(http) <= 1
    /\ req.name \in StaticNames =>
          Len(http) = (IF FailsBeforeRequest THEN 0 ELSE 1)
    /\ (req.name = "cancel_prediction" /\ req.args.obj) =>
          http = <<CancelRequest("predictions", Get(req.args, "prediction_id"))>>
    /\ (req.name = "cancel_training" /\ req.args.obj) =>
          http = <<CancelRequest("trainings", Get(req.args, "training_id"))>>

C15_Witness ==
    /\ Ended
    /\ req.name = "cancel_prediction"
    /\ ~resp.ok
    /\ http = <<CancelRequest("predictions", "p1")>>
    /\ out[1].kind = "error"

\* C16: an interrupt is taken in every state of the serving process, also with an
\* invocation in flight; it closes the transport first, and the process then
\* exits with status 0.
C16_InterruptClosesThenExits ==
    /\ proc.phase = "serving" => ENABLED Sigint
    /\ proc.phase = "closing" => proc.transport = "closed"
    /\ (proc.phase = "exited" /\ ~opts.list) =>
          /\ proc.transport = "closed"
          /\ proc.exit = "0"

C16_Witness ==
    /\ proc.phase = "exited"
    /\ proc.transport = "closed"
    /\ proc.exit = "0"
    /\ pc = "await"

\* the call-tool handler dispatches `name`: it does not answer "Unknown tool"
Dispatches(name, args, tok) ==
    LET s == CallToolHandler(name, args, tok)
    IN s.await \/ ~(/\ s.out.kind = "error"
                    /\ s.out.error.class = "McpError"
                    /\ s.out.error.code = "MethodNotFound")

SchemaAccepts(n) ==
    getApiEndpointSchema(Object([k \in {"endpoint_name"} |-> n])).out.kind = "result"

\* invoke_api_endpoint accepts the endpoint name n
InvokeAccepts(n) ==
    invokeApiEndpoint([obj |-> TRUE, f |-> [k \in {"endpoint_name"} |-> n],
                       parameters |-> [obj |-> TRUE, f |-> EmptyFn]], TRUE).await

\* C18: an endpoint name has a schema exactly if it can be invoked, and every
\* name that list_api_endpoints returns has a schema.
C18_CatalogNamesHaveSchemas ==
    /\ \A n \in EndpointNameInputs : SchemaAccepts(n) <=> InvokeAccepts(n)
    /\ (Ended /\ req.name = "list_api_endpoints") =>
          \A i \in 1..Len(out) :
              out[i].kind = "result" =>
                  \A e \in Range(out[i].content[1].endpoints) : SchemaAccepts(e.name)

\* C19: without a token every tool of the remote API fails with the invalid-request
\* error of create_prediction and issues no HTTP request.
C19_NoTokenEveryToolFailsLocally ==
    (~token /\ req.name \in StaticNames /\ req.args.obj) =>
        /\ http = <<>>
        /\ Ended => FailedLocally("InvalidRequest")

====
